---- MODULE Spec2Model ----
(***************************************************************************)
(* Monte Carlo integration of a polynomial over [a, b] (src/code.py).      *)
(*                                                                         *)
(* Numbers are exact rationals <<num, den>> (den > 0, lowest terms), so    *)
(* Python's float equality, ordering and arithmetic are modelled by exact  *)
(* arithmetic; floating-point rounding is outside the model.               *)
(***************************************************************************)
EXTENDS Integers, Sequences, FiniteSets, TLC

(***************************************************************************)
(* Bounds of the model.                                                    *)
(***************************************************************************)
MaxLen == 3    \* longest coefficient list
MaxN == 2      \* largest n_points

(***************************************************************************)
(* Exact rational arithmetic.                                              *)
(***************************************************************************)
Abs(n) == IF n < 0 THEN -n ELSE n

RECURSIVE GCD(_, _)
GCD(m, n) == IF n = 0 THEN m ELSE GCD(n, m % n)

Norm(n, d) ==
    LET s == IF d < 0 THEN -1 ELSE 1
        g == GCD(Abs(n), Abs(d))
    IN  <<(s * n) \div g, (s * d) \div g>>

R(n) == <<n, 1>>
Zero == R(0)
One == R(1)
RAdd(x, y) == Norm(x[1] * y[2] + y[1] * x[2], x[2] * y[2])
RSub(x, y) == Norm(x[1] * y[2] - y[1] * x[2], x[2] * y[2])
RMul(x, y) == Norm(x[1] * y[1], x[2] * y[2])
RDiv(x, y) == Norm(x[1] * y[2], x[2] * y[1])
RNeg(x) == <<-x[1], x[2]>>
RLeq(x, y) == x[1] * y[2] <= y[1] * x[2]
RLt(x, y) == x[1] * y[2] < y[1] * x[2]
RAbs(x) == <<Abs(x[1]), x[2]>>

\* Python's min(...) and max(...) over a non-empty collection.
RMin(S) == CHOOSE m \in S : \A v \in S : RLeq(m, v)
RMax(S) == CHOOSE m \in S : \A v \in S : RLeq(v, m)

(***************************************************************************)
(* Sequence helpers: list[::-1], sum, numpy.trim_zeros(.., 'f').           *)
(***************************************************************************)
Reverse(s) == [i \in 1..Len(s) |-> s[Len(s) + 1 - i]]

Range(s) == {s[i] : i \in 1..Len(s)}

RECURSIVE TrimFront(_)
TrimFront(s) ==
    IF s = <<>> THEN <<>>
    ELSE IF s[1] = Zero THEN TrimFront(Tail(s)) ELSE s

\* numpy.poly1d(c).coeffs : leading zeros removed, never empty.
Poly1d(c) ==
    LET t == TrimFront(c) IN IF t = <<>> THEN <<Zero>> ELSE t

\* Variant: the factors arange(n, 0, -1) are left out.
PolyDer_NoFactor(p) ==
    LET n == Len(p) - 1
    IN  Poly1d([i \in 1..n |-> p[i]])

\* numpy.polyder on descending coefficients p: p[:-1] * arange(n, 0, -1).
PolyDer(p) ==
    LET n == Len(p) - 1
    IN  Poly1d([i \in 1..n |-> RMul(R(n + 1 - i), p[i])])

\* numpy.polyval(p, x) on descending coefficients: Horner's rule.
RECURSIVE Horner(_, _, _)
Horner(p, x, acc) ==
    IF p = <<>> THEN acc
    ELSE Horner(Tail(p), x, RAdd(RMul(acc, x), p[1]))

PolyVal(p, x) == Horner(p, x, Zero)

(***************************************************************************)
(* evaluate_polynomial and calculate_derivative_coeffs.                    *)
(***************************************************************************)
evaluate_polynomial(coefficients, x) == PolyVal(Reverse(coefficients), x)

calculate_derivative_coeffs(coefficients) ==
    IF Len(coefficients) < 2 THEN <<Zero>>
    ELSE Reverse(PolyDer(Poly1d(Reverse(coefficients))))

(***************************************************************************)
(* numpy.roots(p) on descending coefficients p.  The eigenvalue solver is  *)
(* modelled exactly on the polynomials whose real roots are all rational   *)
(* (Solvable): rational roots come from the rational-root theorem, with    *)
(* multiplicity, and the remaining roots are non-real.  A root is a record *)
(* [re, isreal]; the value of a non-real root is not represented.          *)
(***************************************************************************)
RECURSIVE DenProduct(_)
DenProduct(p) == IF p = <<>> THEN 1 ELSE p[1][2] * DenProduct(Tail(p))

\* The integer polynomial with the same roots as p.
ToInt(p) == LET D == DenProduct(p) IN [i \in 1..Len(p) |-> RMul(p[i], R(D))[1]]

Divides(d, n) == n % d = 0

\* Candidates u/v of the rational-root theorem (constant and leading terms non-zero).
Candidates(p) ==
    LET q == ToInt(p)
        c0 == Abs(q[Len(q)])
        cn == Abs(q[1])
    IN  {Norm(s * u, v) : <<s, u, v>> \in
            {t \in {-1, 1} \X (1..c0) \X (1..cn) : Divides(t[2], c0) /\ Divides(t[3], cn)}}

\* Synthetic division of p by (x - r), remainder dropped.
RECURSIVE DeflateFrom(_, _, _, _)
DeflateFrom(p, r, k, prev) ==
    IF k > Len(p) - 1 THEN <<>>
    ELSE LET cur == RAdd(p[k], RMul(r, prev))
         IN  <<cur>> \o DeflateFrom(p, r, k + 1, cur)

Deflate(p, r) == DeflateFrom(p, r, 1, Zero)

RationalRootSet(p) ==
    IF Len(p) <= 1 THEN {} ELSE {c \in Candidates(p) : PolyVal(p, c) = Zero}

\* Rational roots of p with multiplicity, in ascending order.
RECURSIVE RationalRoots(_)
RationalRoots(p) ==
    IF RationalRootSet(p) = {} THEN <<>>
    ELSE LET r == RMin(RationalRootSet(p))
         IN  <<r>> \o RationalRoots(Deflate(p, r))

\* What is left of p once its rational roots are divided out.
RECURSIVE Cofactor(_)
Cofactor(p) ==
    IF RationalRootSet(p) = {} THEN p
    ELSE Cofactor(Deflate(p, RMin(RationalRootSet(p))))

Discriminant(q) == RSub(RMul(q[2], q[2]), RMul(R(4), RMul(q[1], q[3])))

\* p without its leading and trailing zero coefficients (numpy.roots, non_zero).
NonZeroIdx(p) == {i \in 1..Len(p) : p[i] # Zero}
Min(S) == CHOOSE m \in S : \A v \in S : m <= v
Max(S) == CHOOSE m \in S : \A v \in S : v <= m
Stripped(p) == SubSeq(p, Min(NonZeroIdx(p)), Max(NonZeroIdx(p)))

\* Every real root of the stripped polynomial is rational.
Solvable(p) ==
    IF NonZeroIdx(p) = {} THEN TRUE
    ELSE LET h == Cofactor(Stripped(p))
         IN  IF Len(h) = 3 THEN RLt(Discriminant(h), Zero) ELSE Len(h) = 1

\* eigvals of the companion matrix: all complex roots, with multiplicity.
Eigvals(p) ==
    LET rr == RationalRoots(p)
        nonreal == Len(p) - 1 - Len(rr)
    IN  [i \in 1..Len(rr) |-> [re |-> rr[i], isreal |-> TRUE]]
        \o [i \in 1..nonreal |-> [re |-> Zero, isreal |-> FALSE]]

NpRoots(p) ==
    IF NonZeroIdx(p) = {} THEN <<>>
    ELSE LET trailing_zeros == Len(p) - Max(NonZeroIdx(p))
             q == Stripped(p)
             roots == IF Len(q) > 1 THEN Eigvals(q) ELSE <<>>
         IN  roots \o [i \in 1..trailing_zeros |-> [re |-> Zero, isreal |-> TRUE]]

(***************************************************************************)
(* find_real_roots.                                                        *)
(***************************************************************************)
SelectReal(roots) ==
    LET F[i \in 0..Len(roots)] ==
            IF i = 0 THEN <<>>
            ELSE IF roots[i].isreal THEN Append(F[i - 1], roots[i].re) ELSE F[i - 1]
    IN  F[Len(roots)]

\* Variant: only the empty list returns early.
ReturnsEarly_EmptyOnly(coefficients) == coefficients = <<>>

\* TRUE when the call returns before numpy.roots is reached.
ReturnsEarly(coefficients) ==
    coefficients = <<>> \/ \A i \in 1..Len(coefficients) : coefficients[i] = Zero

find_real_roots(coefficients) ==
    IF ReturnsEarly(coefficients) THEN <<>>
    ELSE SelectReal(NpRoots(Reverse(coefficients)))

(***************************************************************************)
(* estimate_integral_monte_carlo: bounding rectangle, sampling, result.    *)
(***************************************************************************)
\* Variant: the derivative roots are not added.
CriticalPoints_EndpointsOnly(lo, hi, roots) == {lo, hi}

\* critical_points = {a, b} plus the derivative roots r with a <= r <= b.
CriticalPoints(lo, hi, roots) ==
    {lo, hi} \cup {r \in Range(roots) : RLeq(lo, r) /\ RLeq(r, hi)}

ExtremeValues(coeffs, points) == {evaluate_polynomial(coeffs, p) : p \in points}

YMinRect(coeffs, points) == RMin({Zero, RMin(ExtremeValues(coeffs, points))})
YMaxRect(coeffs, points) == RMax({Zero, RMax(ExtremeValues(coeffs, points))})

RectArea(lo, hi, ymin, ymax) == RMul(RSub(hi, lo), RSub(ymax, ymin))

\* Outcomes of random.random() the model draws from.
Fractions == {Zero, Norm(1, 2), One}

\* random.uniform(lo, hi) = lo + (hi - lo) * random.random()
Uniform(lo, hi) == {RAdd(lo, RMul(RSub(hi, lo), t)) : t \in Fractions}

\* Variant: the negative branch accepts rand_y = 0.
Classify_InclusiveZero(f_value, rand_y) ==
    IF RLeq(Zero, rand_y) /\ RLeq(rand_y, f_value) THEN "pos"
    ELSE IF RLeq(f_value, rand_y) /\ RLeq(rand_y, Zero) THEN "neg"
    ELSE "outside"

\* The if / elif / else of the sampling loop.
Classify(f_value, rand_y) ==
    IF RLeq(Zero, rand_y) /\ RLeq(rand_y, f_value) THEN "pos"
    ELSE IF RLeq(f_value, rand_y) /\ RLt(rand_y, Zero) THEN "neg"
    ELSE "outside"

\* Variant: an outside draw is counted as a negative one.
Contribution_OutsideCounts(cat) == IF cat = "pos" THEN 1 ELSE -1

Contribution(cat) == IF cat = "pos" THEN 1 ELSE IF cat = "neg" THEN -1 ELSE 0

\* One iteration of the sampling loop on the accumulators acc, for the draw (x, y).
LoopBody(acc, coeffs, rand_x, rand_y) ==
    LET cat == Classify(evaluate_polynomial(coeffs, rand_x), rand_y)
        pt == <<rand_x, rand_y>>
    IN  [contributions_sum |-> acc.contributions_sum + Contribution(cat),
         points_pos |-> IF cat = "pos" THEN Append(acc.points_pos, pt) ELSE acc.points_pos,
         points_neg |-> IF cat = "neg" THEN Append(acc.points_neg, pt) ELSE acc.points_neg,
         points_outside |-> IF cat = "outside" THEN Append(acc.points_outside, pt)
                            ELSE acc.points_outside]

EmptyAcc ==
    [contributions_sum |-> 0, points_pos |-> <<>>, points_neg |-> <<>>,
     points_outside |-> <<>>]

\* Variant: range(1, n_points), the loop leaves out the last draw.
SamplingLoop_OneShort(acc, coeffs, samples) ==
    LET F[i \in 0..Len(samples)] ==
            IF i = 0 THEN acc
            ELSE LoopBody(F[i - 1], coeffs, samples[i][1], samples[i][2])
    IN  IF samples = <<>> THEN acc ELSE F[Len(samples) - 1]

\* The whole sampling loop, for _ in range(n_points), over the draws samples[1..n_points].
SamplingLoop(acc, coeffs, samples) ==
    LET F[i \in 0..Len(samples)] ==
            IF i = 0 THEN acc
            ELSE LoopBody(F[i - 1], coeffs, samples[i][1], samples[i][2])
    IN  F[Len(samples)]

\* Variant: n_points = 0 is accepted.
InvalidCount_OffByOne(n) == n < 0

\* if n_points <= 0
InvalidCount(n) == n <= 0

\* Variant: the test is rect_area < 0.
ZeroArea_Negative(area) == RLt(area, Zero)

\* if rect_area == 0
ZeroArea(area) == area = Zero

\* Variant: the sum is not divided by n_points.
Estimate_NoDivision(sum, n, area) == RMul(R(sum), area)

\* estimated_integral = (contributions_sum / n_points) * rect_area
Estimate(sum, n, area) == RMul(RDiv(R(sum), R(n)), area)

NoWorkers == [samples |-> <<>>, owner |-> <<>>, done |-> <<>>, local |-> <<>>]

NoReturn ==
    [kind |-> "none", estimate |-> Zero, points_pos |-> <<>>, points_neg |-> <<>>,
     points_outside |-> <<>>, y_min_rect |-> Zero, y_max_rect |-> Zero, list |-> <<>>]

(***************************************************************************)
(* Inputs: integer coefficients and interval bounds, with a < b, a = b and *)
(* a > b; n_points negative, zero and positive.  The estimator is called   *)
(* on the polynomials whose derivative is Solvable.                        *)
(***************************************************************************)
Coef == {R(-1), Zero, One}
CoeffLists == UNION {[1..n -> Coef] : n \in 0..MaxLen}
Endpoints == {R(-1), Zero, One}
Counts == -1..MaxN
Workers == {"w1", "w2"}
Estimators == {"estimate_integral_monte_carlo", "chunked_estimate"}
Functions == {"estimate_integral_monte_carlo", "calculate_derivative_coeffs", "find_real_roots"}

(***************************************************************************)
(* State: one call of one of the module's functions.                       *)
(***************************************************************************)
VARIABLES
    fn,                \* the function called
    a, b,              \* interval bounds
    poly_coeffs,       \* coefficient list, constant term first
    n_points,          \* requested number of draws
    pc,                \* "entry", "area", "loop", "done"
    derivative_coeffs,
    derivative_roots,
    critical_points,
    y_min_rect, y_max_rect,
    rect_area,
    rect_computed,     \* lines 89-104 have run
    np_roots_calls,    \* number of numpy.roots invocations
    k,                 \* iterations of the sampling loop completed
    acc,               \* contributions_sum and the three point lists
    ret,               \* what the call returned or raised
    par                \* the chunked sampling of section 5: draws, owners, local state

inputs == <<fn, a, b, poly_coeffs, n_points>>
rect == <<derivative_coeffs, derivative_roots, critical_points, y_min_rect, y_max_rect,
          rect_area, rect_computed, np_roots_calls>>
vars == <<inputs, rect, pc, k, acc, ret, par>>

Start ==
    /\ pc = "entry"
    /\ derivative_coeffs = <<>>
    /\ derivative_roots = <<>>
    /\ critical_points = {}
    /\ y_min_rect = Zero
    /\ y_max_rect = Zero
    /\ rect_area = Zero
    /\ rect_computed = FALSE
    /\ np_roots_calls = 0
    /\ k = 0
    /\ acc = EmptyAcc
    /\ ret = NoReturn
    /\ par = NoWorkers

Init ==
    /\ fn \in Functions
    /\ poly_coeffs \in CoeffLists
    /\ IF fn = "estimate_integral_monte_carlo"
       THEN /\ a \in Endpoints
            /\ b \in Endpoints
            /\ n_points \in Counts
            /\ Solvable(Reverse(calculate_derivative_coeffs(poly_coeffs)))
       ELSE /\ a = Zero
            /\ b = Zero
            /\ n_points = 0
            /\ fn = "find_real_roots" => Solvable(Reverse(poly_coeffs))
    /\ Start

(***************************************************************************)
(* Direct calls of the two helpers.                                        *)
(***************************************************************************)
CallDerivative ==
    /\ fn = "calculate_derivative_coeffs"
    /\ pc = "entry"
    /\ ret' = [NoReturn EXCEPT !.kind = "list",
                               !.list = calculate_derivative_coeffs(poly_coeffs)]
    /\ pc' = "done"
    /\ UNCHANGED <<inputs, rect, k, acc, par>>

CallFindRealRoots ==
    /\ fn = "find_real_roots"
    /\ pc = "entry"
    /\ ret' = [NoReturn EXCEPT !.kind = "list", !.list = find_real_roots(poly_coeffs)]
    /\ np_roots_calls' = IF ReturnsEarly(poly_coeffs) THEN 0 ELSE 1
    /\ pc' = "done"
    /\ UNCHANGED <<inputs, derivative_coeffs, derivative_roots, critical_points,
                   y_min_rect, y_max_rect, rect_area, rect_computed, k, acc, par>>

(***************************************************************************)
(* estimate_integral_monte_carlo, step by step.                            *)
(***************************************************************************)
\* if n_points <= 0: raise ValueError
RaiseValueError ==
    /\ fn \in Estimators
    /\ pc = "entry"
    /\ InvalidCount(n_points)
    /\ ret' = [NoReturn EXCEPT !.kind = "ValueError"]
    /\ pc' = "done"
    /\ UNCHANGED <<inputs, rect, k, acc, par>>

\* 1. the bounding rectangle
ComputeRectangle ==
    /\ fn \in Estimators
    /\ pc = "entry"
    /\ ~InvalidCount(n_points)
    /\ LET dc == calculate_derivative_coeffs(poly_coeffs)
           dr == find_real_roots(dc)
           cp == CriticalPoints(a, b, dr)
           ymin == YMinRect(poly_coeffs, cp)
           ymax == YMaxRect(poly_coeffs, cp)
       IN  /\ derivative_coeffs' = dc
           /\ derivative_roots' = dr
           /\ np_roots_calls' = IF ReturnsEarly(dc) THEN 0 ELSE 1
           /\ critical_points' = cp
           /\ y_min_rect' = ymin
           /\ y_max_rect' = ymax
           /\ rect_area' = RectArea(a, b, ymin, ymax)
    /\ rect_computed' = TRUE
    /\ pc' = "area"
    /\ UNCHANGED <<inputs, k, acc, ret, par>>

\* if rect_area == 0: return 0.0, [], [], [], y_min_rect, y_max_rect
ReturnZeroArea ==
    /\ pc = "area"
    /\ ZeroArea(rect_area)
    /\ ret' = [NoReturn EXCEPT !.kind = "tuple", !.estimate = Zero,
                               !.y_min_rect = y_min_rect, !.y_max_rect = y_max_rect]
    /\ pc' = "done"
    /\ UNCHANGED <<inputs, rect, k, acc, par>>

\* 2. contributions_sum = 0 and the three empty lists
StartSampling ==
    /\ fn = "estimate_integral_monte_carlo"
    /\ pc = "area"
    /\ ~ZeroArea(rect_area)
    /\ k' = 0
    /\ acc' = EmptyAcc
    /\ pc' = "loop"
    /\ UNCHANGED <<inputs, rect, ret, par>>

\* one iteration of: for _ in range(n_points)
Draw ==
    /\ pc = "loop"
    /\ k < n_points
    /\ \E rand_x \in Uniform(a, b), rand_y \in Uniform(y_min_rect, y_max_rect) :
          acc' = LoopBody(acc, poly_coeffs, rand_x, rand_y)
    /\ k' = k + 1
    /\ UNCHANGED <<inputs, rect, pc, ret, par>>

\* 3. the estimate and the return
ReturnEstimate ==
    /\ pc = "loop"
    /\ ~(k < n_points)
    /\ ret' = [kind |-> "tuple",
               estimate |-> Estimate(acc.contributions_sum, n_points, rect_area),
               points_pos |-> acc.points_pos,
               points_neg |-> acc.points_neg,
               points_outside |-> acc.points_outside,
               y_min_rect |-> y_min_rect,
               y_max_rect |-> y_max_rect,
               list |-> <<>>]
    /\ pc' = "done"
    /\ UNCHANGED <<inputs, rect, k, acc, par>>

Next ==
    \/ CallDerivative
    \/ CallFindRealRoots
    \/ RaiseValueError
    \/ ComputeRectangle
    \/ ReturnZeroArea
    \/ StartSampling
    \/ Draw
    \/ ReturnEstimate

Spec == Init /\ [][Next]_vars

(***************************************************************************)
(* The chunked sampling loop: the n draws are split among workers, each    *)
(* with a local signed counter and local point buffers, combined at the    *)
(* end by summation and concatenation.  Everything before the loop is the  *)
(* estimator's own code.                                                   *)
(***************************************************************************)
ChunkInputs == {c \in CoeffLists : Len(c) = 2}

ChunkInit ==
    /\ fn = "chunked_estimate"
    /\ poly_coeffs \in ChunkInputs
    /\ a \in Endpoints
    /\ b \in Endpoints
    /\ n_points \in Counts
    /\ Start

\* The indices of the draws worker w owns, in increasing order.
RECURSIVE ChunkOf(_, _, _)
ChunkOf(owner, w, i) ==
    IF i > Len(owner) THEN <<>>
    ELSE (IF owner[i] = w THEN <<i>> ELSE <<>>) \o ChunkOf(owner, w, i + 1)

Fork ==
    /\ fn = "chunked_estimate"
    /\ pc = "area"
    /\ ~ZeroArea(rect_area)
    /\ \E samples \in [1..n_points -> Uniform(a, b) \X Uniform(y_min_rect, y_max_rect)],
          owner \in [1..n_points -> Workers] :
          par' = [samples |-> samples, owner |-> owner,
                  done |-> [w \in Workers |-> 0],
                  local |-> [w \in Workers |-> EmptyAcc]]
    /\ pc' = "workers"
    /\ UNCHANGED <<inputs, rect, k, acc, ret>>

\* Worker w handles the next draw of its chunk.
WorkerStep(w) ==
    /\ pc = "workers"
    /\ par.done[w] < Len(ChunkOf(par.owner, w, 1))
    /\ LET i == ChunkOf(par.owner, w, 1)[par.done[w] + 1]
           s == par.samples[i]
       IN  par' = [par EXCEPT !.done[w] = @ + 1,
                              !.local[w] = LoopBody(@, poly_coeffs, s[1], s[2])]
    /\ UNCHANGED <<inputs, rect, pc, k, acc, ret>>

Combine(l1, l2) ==
    [contributions_sum |-> l1.contributions_sum + l2.contributions_sum,
     points_pos |-> l1.points_pos \o l2.points_pos,
     points_neg |-> l1.points_neg \o l2.points_neg,
     points_outside |-> l1.points_outside \o l2.points_outside]

\* All workers are done: sum the counters, concatenate the buffers, return.
Join ==
    /\ pc = "workers"
    /\ \A w \in Workers : par.done[w] = Len(ChunkOf(par.owner, w, 1))
    /\ LET total == Combine(par.local["w1"], par.local["w2"])
       IN  /\ acc' = total
           /\ ret' = [kind |-> "tuple",
                      estimate |-> Estimate(total.contributions_sum, n_points, rect_area),
                      points_pos |-> total.points_pos,
                      points_neg |-> total.points_neg,
                      points_outside |-> total.points_outside,
                      y_min_rect |-> y_min_rect,
                      y_max_rect |-> y_max_rect,
                      list |-> <<>>]
    /\ k' = n_points
    /\ pc' = "done"
    /\ UNCHANGED <<inputs, rect, par>>

ChunkNext ==
    \/ RaiseValueError
    \/ ComputeRectangle
    \/ ReturnZeroArea
    \/ Fork
    \/ \E w \in Workers : WorkerStep(w)
    \/ Join

ChunkSpec == ChunkInit /\ [][ChunkNext]_vars

(***************************************************************************)
(* Properties.  The helpers below restate the documented behaviour         *)
(* directly, without the operators that model the code.                    *)
(***************************************************************************)
IsEstimate == fn = "estimate_integral_monte_carlo"
Returned == pc = "done" /\ ret.kind = "tuple"
Area == RMul(RSub(b, a), RSub(y_max_rect, y_min_rect))

\* The value at x = u/v of the polynomial with integer coefficients c[1], c[2], ...
\* (constant term first): sum of c[i] * u^(i-1) * v^(L-i), over v^(L-1).
RECURSIVE Power(_, _)
Power(n, e) == IF e = 0 THEN 1 ELSE n * Power(n, e - 1)

RECURSIVE SumTerms(_, _, _, _)
SumTerms(c, u, v, i) ==
    IF i > Len(c) THEN 0
    ELSE c[i][1] * Power(u, i - 1) * Power(v, Len(c) - i) + SumTerms(c, u, v, i + 1)

ValueAt(c, x) ==
    IF c = <<>> THEN Zero ELSE Norm(SumTerms(c, x[1], x[2], 1), Power(x[2], Len(c) - 1))

P(x) == ValueAt(poly_coeffs, x)

\* [a1, 2*a2, ..., n*an], or [0.0] for fewer than two coefficients.
DocumentedDerivative(c) ==
    IF Len(c) < 2 THEN <<Zero>> ELSE [i \in 1..(Len(c) - 1) |-> RMul(R(i), c[i + 1])]

DP(x) == ValueAt(DocumentedDerivative(poly_coeffs), x)

\* Rationals of small height: every rational root of a derivative is one of them.
Height == MaxLen + 1
Probes == {Norm(u, v) : <<u, v>> \in (-Height..Height) \X (1..Height)}
InInterval(x) == RLeq(a, x) /\ RLeq(x, b)

\* {a, b} and every root of P' in [a, b]; a constant P has no isolated critical point.
DocumentedCritical ==
    {a, b} \cup {r \in Probes : InInterval(r) /\ DP(r) = Zero
                                /\ \E i \in 2..Len(poly_coeffs) : poly_coeffs[i] # Zero}

\* The three categories of a sample.
Category(fx, y) ==
    IF RLeq(Zero, y) /\ RLeq(y, fx) THEN "pos"
    ELSE IF RLeq(fx, y) /\ RLt(y, Zero) THEN "neg"
    ELSE "outside"

AllOf(list, cat) == \A i \in 1..Len(list) : Category(P(list[i][1]), list[i][2]) = cat

\* C1: a call with n_points <= 0 raises ValueError before the rectangle is computed or
\* any sample is drawn, and returns no estimate and no points, whatever a, b and the
\* coefficients are.
C1_InvalidCountRaises ==
    (IsEstimate /\ n_points <= 0) =>
        /\ pc \in {"entry", "done"}
        /\ ~rect_computed
        /\ np_roots_calls = 0
        /\ k = 0
        /\ acc = EmptyAcc
        /\ pc = "done" => ret = [NoReturn EXCEPT !.kind = "ValueError"]

C1_Witness ==
    /\ IsEstimate /\ n_points = 0 /\ pc = "done"
    /\ poly_coeffs = <<Zero>> /\ RLt(a, b)

\* C2: with n_points > 0 and a rectangle of zero area the call returns exactly 0.0 with
\* the three collections empty, draws no sample, and returns the vertical bounds.
C2_ZeroAreaShortcut ==
    (IsEstimate /\ rect_computed /\ Area = Zero) =>
        /\ pc \in {"area", "done"}
        /\ k = 0
        /\ acc = EmptyAcc
        /\ pc = "done" =>
              /\ ret.kind = "tuple"
              /\ ret.estimate = Zero
              /\ ret.points_pos = <<>> /\ ret.points_neg = <<>> /\ ret.points_outside = <<>>
              /\ ret.y_min_rect = y_min_rect /\ ret.y_max_rect = y_max_rect

C2_Witness ==
    /\ IsEstimate /\ Returned /\ n_points > 0
    /\ poly_coeffs = <<Zero>> /\ RLt(a, b)
    /\ ret.estimate = Zero /\ k = 0

\* C3: with n_points > 0 and non-zero area the loop makes exactly n_points draws and the
\* estimate is (signed_counter / n_points) * (b - a) * (y_max_rect - y_min_rect), the
\* counter holding +1 per positive draw, -1 per negative draw, 0 per outside draw.
SignedCount(pos, neg, out) ==
    LET all == pos \o neg \o out
        n(cat) == Cardinality({i \in 1..Len(all) : Category(P(all[i][1]), all[i][2]) = cat})
    IN  n("pos") - n("neg")

C3_EstimateFormula ==
    (IsEstimate /\ Returned /\ Area # Zero) =>
        /\ k = n_points
        /\ Len(ret.points_pos) + Len(ret.points_neg) + Len(ret.points_outside) = n_points
        /\ ret.estimate =
              RMul(RDiv(R(SignedCount(ret.points_pos, ret.points_neg, ret.points_outside)),
                        R(n_points)),
                   RMul(RSub(b, a), RSub(ret.y_max_rect, ret.y_min_rect)))

C3_Witness ==
    /\ IsEstimate /\ Returned /\ Area # Zero
    /\ n_points = MaxN
    /\ Len(ret.points_pos) >= 1 /\ Len(ret.points_outside) >= 1
    /\ ret.estimate # Zero

\* C4: every drawn sample is in exactly one of the three lists, the one of its category:
\* positive iff 0 <= y <= P(x), negative iff P(x) <= y < 0, outside otherwise; after the
\* loop the three lists hold n_points samples.
C4_Classification ==
    IsEstimate =>
        /\ AllOf(acc.points_pos, "pos")
        /\ AllOf(acc.points_neg, "neg")
        /\ AllOf(acc.points_outside, "outside")
        /\ Len(acc.points_pos) + Len(acc.points_neg) + Len(acc.points_outside) = k
        /\ (Returned /\ Area # Zero) =>
              Len(ret.points_pos) + Len(ret.points_neg) + Len(ret.points_outside) = n_points

C4_Witness ==
    /\ IsEstimate /\ Returned
    /\ \E i \in 1..Len(ret.points_outside) :
          ret.points_outside[i][2] = Zero /\ RLt(P(ret.points_outside[i][1]), Zero)
    /\ \E i \in 1..Len(ret.points_pos) :
          ret.points_pos[i][2] = Zero /\ RLeq(Zero, P(ret.points_pos[i][1]))

\* C5: calculate_derivative_coeffs returns [a1, 2*a2, ..., n*an] (length n) for every
\* list of at least two coefficients, zero highest-degree coefficients included, and
\* [0.0] for a shorter list.
C5_DerivativeCoefficients ==
    (fn = "calculate_derivative_coeffs" /\ pc = "done") =>
        ret.list = DocumentedDerivative(poly_coeffs)

\* C6: the returned bounds are min(0, min of P over the critical points) and
\* max(0, max of P over the critical points), the critical points being a, b and the
\* roots of P' in [a, b]; so y_min_rect <= 0 <= y_max_rect on both return paths.
C6_RectangleBounds ==
    (IsEstimate /\ Returned) =>
        LET values == {P(x) : x \in DocumentedCritical}
        IN  /\ ret.y_min_rect = RMin(values \cup {Zero})
            /\ ret.y_max_rect = RMax(values \cup {Zero})
            /\ RLeq(ret.y_min_rect, Zero) /\ RLeq(Zero, ret.y_max_rect)

C6_Witness ==
    /\ IsEstimate /\ Returned /\ Area # Zero
    /\ \E r \in DocumentedCritical : r \notin {a, b} /\ P(r) = ret.y_min_rect
    /\ RLt(ret.y_min_rect, P(a)) /\ RLt(ret.y_min_rect, P(b))
    /\ RLt(ret.y_min_rect, Zero)

\* C7: for a < b the rectangle bounds the graph of P over [a, b]: y_min_rect <= P(x) <=
\* y_max_rect for every x of the interval (compared where the rectangle has just been
\* computed), and so for every drawn rand_x.
Drawn == Range(acc.points_pos) \cup Range(acc.points_neg) \cup Range(acc.points_outside)

C7_RectangleBoundsGraph ==
    /\ (IsEstimate /\ pc = "area" /\ RLt(a, b)) =>
          \A x \in Probes :
              InInterval(x) => RLeq(y_min_rect, P(x)) /\ RLeq(P(x), y_max_rect)
    /\ (IsEstimate /\ rect_computed /\ RLt(a, b)) =>
          \A pt \in Drawn : RLeq(y_min_rect, P(pt[1])) /\ RLeq(P(pt[1]), y_max_rect)

C7_Witness ==
    /\ IsEstimate /\ rect_computed /\ RLt(a, b) /\ k >= 1
    /\ RLt(Zero, y_max_rect) /\ RLt(P(a), y_max_rect) /\ RLt(P(b), y_max_rect)
    /\ \E pt \in Drawn : P(pt[1]) = y_max_rect

\* C8: find_real_roots returns the empty sequence for the empty list and for every
\* all-zero list without calling the root solver; so for a constant polynomial the
\* estimator's critical point set is exactly {a, b}.
C8_ZeroPolynomialNoRoots ==
    /\ (fn = "find_real_roots" /\ pc = "done"
            /\ \A i \in 1..Len(poly_coeffs) : poly_coeffs[i] = Zero) =>
          ret.list = <<>> /\ np_roots_calls = 0
    /\ (IsEstimate /\ rect_computed /\ Len(poly_coeffs) = 1) =>
          critical_points = {a, b} /\ np_roots_calls = 0

C8_Witness ==
    /\ fn = "find_real_roots" /\ pc = "done"
    /\ poly_coeffs = <<Zero, Zero>>
    /\ ret.kind = "list" /\ ret.list = <<>>

\* C9: whatever the partition of the draws among the workers and whatever their
\* interleaving, the summed counter, the sizes of the concatenated categories and the
\* estimate equal those of the sequential loop over the same draws.
C9_ChunksAgreeWithLoop ==
    (fn = "chunked_estimate" /\ Returned /\ Area # Zero) =>
        LET seq == SamplingLoop(EmptyAcc, poly_coeffs, par.samples)
        IN  /\ Len(par.samples) = n_points
            /\ acc.contributions_sum = seq.contributions_sum
            /\ Len(ret.points_pos) = Len(seq.points_pos)
            /\ Len(ret.points_neg) = Len(seq.points_neg)
            /\ Len(ret.points_outside) = Len(seq.points_outside)
            /\ ret.estimate = Estimate(seq.contributions_sum, n_points, rect_area)

C9_Witness ==
    /\ fn = "chunked_estimate" /\ Returned /\ Area # Zero
    /\ n_points = MaxN
    /\ par.owner[1] = "w2" /\ par.owner[n_points] = "w1"
    /\ Len(ret.points_pos) >= 1 /\ Len(ret.points_neg) >= 1

\* C10: after every iteration k of the loop, contributions_sum = len(points_pos) -
\* len(points_neg) and the three lengths add up to k, so |contributions_sum| <= k; the
\* returned estimate never exceeds the rectangle area in magnitude.
C10_LoopInvariant ==
    IsEstimate =>
        /\ IF n_points > 0 THEN k \in 0..n_points ELSE k = 0
        /\ acc.contributions_sum = Len(acc.points_pos) - Len(acc.points_neg)
        /\ Len(acc.points_pos) + Len(acc.points_neg) + Len(acc.points_outside) = k
        /\ -k <= acc.contributions_sum /\ acc.contributions_sum <= k
        /\ Returned => RLeq(RAbs(ret.estimate), RAbs(Area))

C10_Witness ==
    /\ IsEstimate /\ pc = "loop" /\ k = MaxN
    /\ Len(acc.points_neg) >= 1 /\ Len(acc.points_outside) >= 1
    /\ acc.contributions_sum = -1

====
